---- MODULE Spec2Model ----
(***************************************************************************)
(* clear-files (src/src/main.rs): delete the immediate children of a       *)
(* directory whose last-modified time is older than a duration given as    *)
(* "<n>d" or "<n>w", after an interactive confirmation.                    *)
(*                                                                         *)
(* 64-bit quantities are kept at their full width as little-endian         *)
(* sequences of 16-bit limbs, so that u64 overflow in the parser and in    *)
(* the unit multiplication, and the i64 range of SystemTime, are those of  *)
(* the program.  A SystemTime is its whole-second tv_sec (an i64) stored   *)
(* with an offset of 2^63, which keeps the order of instants.              *)
(***************************************************************************)
EXTENDS Integers, Sequences, FiniteSets, TLC

VARIABLES
    pc,                   \* position of main / main_script
    path_exists,          \* the target path can be opened for listing
    dir,                  \* the target directory: its children in listing order
    dir0,                 \* history: the directory as it was when the run began
    duration_arg,         \* the raw --duration string (sequence of characters)
    duration,             \* Args.duration, whole seconds (u64 limbs)
    now,                  \* SystemTime::now()
    threshold_time,       \* now - duration
    prompted,             \* the prompt was printed and a line was read
    answer,               \* the line read from standard input
    read_dir_called,      \* fs::read_dir was called on the path
    scan_fault,           \* history: the first I/O failure met by the scan
    file_is_old_mapping,  \* Vec<(DirEntry, bool)>
    next,                 \* position of the lazy deletion iterator
    attempted,            \* history: entries handed to the deletion closure
    results,              \* the Vec<()> being collected
    err,                  \* the Error main_script returned
    stdout                \* counts printed by "Successfully removed N files!"

vars == <<pc, path_exists, dir, dir0, duration_arg, duration, now,
          threshold_time, prompted, answer, read_dir_called, scan_fault,
          file_is_old_mapping, next, attempted, results, err, stdout>>

----------------------------------------------------------------------------
(* Bounds of the model *)

\* The most children the target directory holds
MaxEntries == 3
\* The number of items in the subtree of a child that is a directory
DirItems == 1

----------------------------------------------------------------------------
(* Program constants *)

DAYS_PER_WEEK == 7
HOURS_PER_DAY == 24
MINUTES_PER_HOUR == 60
SECONDS_PER_MINUTE == 60

----------------------------------------------------------------------------
(* Fixed-width unsigned arithmetic on limbs *)

Base == 2^16

U64Zero == <<0, 0, 0, 0>>

\* x * k + carry on limbs; the last element of the result is the carry out.
RECURSIVE MulLimbs(_, _, _)
MulLimbs(x, k, carry) ==
    IF x = <<>> THEN <<carry>>
    ELSE LET p == Head(x) * k + carry
         IN  <<p % Base>> \o MulLimbs(Tail(x), k, p \div Base)

\* u64::checked_mul / wrapping_mul by a small factor
MulSmall(x, k) ==
    LET r == MulLimbs(x, k, 0)
    IN  [val |-> SubSeq(r, 1, Len(x)), overflow |-> r[Len(x) + 1] # 0]

\* u64::checked_add of a small addend
AddSmall(x, a) ==
    LET r == MulLimbs(x, 1, a)
    IN  [val |-> SubSeq(r, 1, Len(x)), overflow |-> r[Len(x) + 1] # 0]

\* a - b - borrow on limbs; the last element of the result is the borrow out.
RECURSIVE SubLimbs(_, _, _)
SubLimbs(a, b, borrow) ==
    IF a = <<>> THEN <<borrow>>
    ELSE LET d == Head(a) - Head(b) - borrow
         IN  IF d < 0
             THEN <<d + Base>> \o SubLimbs(Tail(a), Tail(b), 1)
             ELSE <<d>> \o SubLimbs(Tail(a), Tail(b), 0)

\* Ord::lt on equal-length limb sequences, most significant limb first
RECURSIVE LimbsLt(_, _)
LimbsLt(a, b) ==
    IF a = <<>> THEN FALSE
    ELSE LET n == Len(a)
         IN  IF a[n] # b[n] THEN a[n] < b[n]
             ELSE LimbsLt(SubSeq(a, 1, n - 1), SubSeq(b, 1, n - 1))

\* The SystemTime whose tv_sec is s, for 0 <= s < 2^31
TimeOfSecs(s) == <<s % Base, s \div Base, 0, 2^15>>

----------------------------------------------------------------------------
(* get_args: the duration parser *)

DigitChars == <<"0", "1", "2", "3", "4", "5", "6", "7", "8", "9">>

IsDigit(c) == \E i \in 1..10 : DigitChars[i] = c

DigitValue(c) == (CHOOSE i \in 1..10 : DigitChars[i] = c) - 1

\* str::chars().last()
LastChar(s) == IF s = <<>> THEN "" ELSE s[Len(s)]

\* str::trim_end_matches(c): removes every trailing occurrence of c
RECURSIVE TrimEndMatches(_, _)
TrimEndMatches(s, c) ==
    IF s # <<>> /\ s[Len(s)] = c
    THEN TrimEndMatches(SubSeq(s, 1, Len(s) - 1), c)
    ELSE s

\* The digit loop of u64::from_str: result = result * 10 + digit, checked
RECURSIVE ParseDigits(_, _)
ParseDigits(s, acc) ==
    IF s = <<>> THEN [ok |-> TRUE, val |-> acc]
    ELSE IF ~IsDigit(Head(s)) THEN [ok |-> FALSE, val |-> U64Zero]
    ELSE LET m == MulSmall(acc, 10)
             a == AddSmall(m.val, DigitValue(Head(s)))
         IN  IF m.overflow \/ a.overflow
             THEN [ok |-> FALSE, val |-> U64Zero]
             ELSE ParseDigits(Tail(s), a.val)

\* str::parse::<u64>(): an optional leading "+", then one or more digits
ParseU64(s) ==
    IF s = <<>> THEN [ok |-> FALSE, val |-> U64Zero]
    ELSE IF Len(s) = 1 /\ s[1] \in {"+", "-"} THEN [ok |-> FALSE, val |-> U64Zero]
    ELSE IF s[1] = "+" THEN ParseDigits(Tail(s), U64Zero)
    ELSE ParseDigits(s, U64Zero)

\* n * f1 * f2 * ... in u64, left to right; overflow is remembered
RECURSIVE MulChain(_, _)
MulChain(n, factors) ==
    IF factors = <<>> THEN [val |-> n, overflow |-> FALSE]
    ELSE LET m == MulSmall(n, Head(factors))
             r == MulChain(m.val, Tail(factors))
         IN  [val |-> r.val, overflow |-> m.overflow \/ r.overflow]

DayFactors == <<SECONDS_PER_MINUTE, MINUTES_PER_HOUR, HOURS_PER_DAY>>

WeekFactors == <<SECONDS_PER_MINUTE, MINUTES_PER_HOUR, HOURS_PER_DAY, DAYS_PER_WEEK>>

\* The match on duration.chars().last()
ParseDuration(s) ==
    LET unit == LastChar(s)
    IN  IF unit \notin {"d", "w"}
        THEN [ok |-> FALSE, secs |-> U64Zero, overflow |-> FALSE]
        ELSE LET n == ParseU64(TrimEndMatches(s, unit))
                 m == MulChain(n.val, IF unit = "d" THEN DayFactors ELSE WeekFactors)
             IN  IF ~n.ok
                 THEN [ok |-> FALSE, secs |-> U64Zero, overflow |-> FALSE]
                 ELSE [ok |-> TRUE, secs |-> m.val, overflow |-> m.overflow]

----------------------------------------------------------------------------
(* Threshold *)

\* SystemTime::checked_sub(Duration): None when tv_sec would leave the i64 range
CheckedSub(t, d) ==
    LET r == SubLimbs(t, d, 0)
    IN  [ok |-> r[Len(t) + 1] = 0, val |-> SubSeq(r, 1, Len(t))]

\* The range of instants chrono's DateTime can hold is about +-262143 years;
\* the model places the limits at -2^43 s and 2^43 s.
ChronoMin == <<0, 0, Base - 2^11, 2^15 - 1>>

ChronoMax == <<0, 0, 2^11, 2^15>>

\* DateTime::<Local>::from(SystemTime) panics outside chrono's range
DateTimeRepresentable(t) == ~LimbsLt(t, ChronoMin) /\ LimbsLt(t, ChronoMax)

----------------------------------------------------------------------------
(* Confirmation *)

\* Mutant: the answer is compared without regard to case
AnswerConfirmsAnyCase(line) == line \in {"y", "Y"}

\* answer != "y" is false
AnswerConfirms(line) == line = "y"

----------------------------------------------------------------------------
(* Scan *)

NoFault == [at |-> 0, kind |-> "None"]

\* Mutant: le in place of lt
IsOldInclusive(modified, th) == ~LimbsLt(th, modified)

\* modified.lt(&threshold_time)
IsOld(modified, th) == LimbsLt(modified, th)

\* The closure mapped over read_dir, for the child at position i
ScanEntry(d, i, th) == [file |-> i, is_old |-> IsOld(d[i].modified, th)]

\* Mutant: an entry that cannot be read is skipped instead of ending the scan
CollectScanLossy(d, fault, th) ==
    [ok |-> TRUE, error |-> "None",
     mapping |-> SelectSeq([i \in 1..Len(d) |-> ScanEntry(d, i, th)],
                           LAMBDA e : e.file # fault.at)]

\* collect::<Result<Vec<_>>>(): the first Err, or every (DirEntry, bool)
CollectScan(d, fault, th) ==
    IF fault.at \in 1..Len(d)
    THEN [ok |-> FALSE, error |-> fault.kind, mapping |-> <<>>]
    ELSE [ok |-> TRUE, error |-> "None",
          mapping |-> [i \in 1..Len(d) |-> ScanEntry(d, i, th)]]

----------------------------------------------------------------------------
(* Deletion *)

\* Mutant: the filter on is_old is missing
NextAny(mapping, from) == IF from <= Len(mapping) THEN from ELSE 0

\* Mutant: the old entries are visited from the end of the listing
NextOldLast(mapping, from) ==
    LET olds == {k \in from..Len(mapping) : mapping[k].is_old}
    IN  IF olds = {} THEN 0 ELSE CHOOSE k \in olds : \A j \in olds : k >= j

\* filter_map over file_is_old_mapping.iter(): the position of the next old
\* entry at or after from, 0 when the iterator is exhausted
NextOld(mapping, from) ==
    LET olds == {k \in from..Len(mapping) : mapping[k].is_old}
    IN  IF olds = {} THEN 0 ELSE CHOOSE k \in olds : \A j \in olds : k <= j

\* Mutant: the length of the whole mapping is reported
ResultsLenAll(res) == Len(file_is_old_mapping)

\* results?.len()
ResultsLen(res) == Len(res)

----------------------------------------------------------------------------
(* Inputs *)

FileNames == <<"a", "b", "c", "d", "e", "f">>

PathArg == "target"

DurationArgs == {
    <<"3", "0", "d">>,
    <<"5", "w">>,
    <<"0", "d">>,
    <<"5", "0", "d", "d">>,
    <<"6", "w", "w">>,
    <<"+", "5", "0", "d">>,
    <<"-", "5", "d">>,
    <<"a", "b", "c">>,
    <<>>,
    <<"d">>,
    <<"3", "0">>,
    <<"5", "x">>,
    <<"1", ".", "5", "d">>,
    <<"3", "0", "D">>,
    <<"2", "d", "w">>,
    \* 2^64 followed by d: the magnitude does not fit a u64
    <<"1", "8", "4", "4", "6", "7", "4", "4", "0", "7", "3", "7", "0", "9",
      "5", "5", "1", "6", "1", "6", "d">>,
    \* the least number of days whose seconds do not fit a u64
    <<"2", "1", "3", "5", "0", "3", "9", "8", "2", "3", "3", "4", "6", "0",
      "2", "d">>,
    \* a number of weeks whose seconds do not fit a u64
    <<"3", "0", "5", "0", "0", "5", "6", "8", "9", "0", "4", "9", "4", "8",
      "w">>,
    \* 1.296 * 10^19 s: fits a u64, reaches below the least SystemTime
    <<"1", "5", "0", "0", "0", "0", "0", "0", "0", "0", "0", "0", "0", "0",
      "0", "d">>,
    \* 8.64 * 10^18 s: the threshold is a SystemTime chrono cannot hold
    <<"1", "0", "0", "0", "0", "0", "0", "0", "0", "0", "0", "0", "0", "0",
      "0", "d">>
}

Answers == {"y", "", "Y", "yes", "n"}

\* Two readings of the clock one second apart
NowSet == {TimeOfSecs(1800000000), TimeOfSecs(1800000001)}

\* Modification times: 30 days before the first clock reading, and a second later
ModifiedTimes == {TimeOfSecs(1800000000 - 2592000), TimeOfSecs(1800000001 - 2592000)}

Kinds == {"file", "dir", "other"}

EntryShapes ==
    {e \in [kind : Kinds, modified : ModifiedTimes, contents : {0, DirItems}] :
        e.contents = IF e.kind = "dir" THEN DirItems ELSE 0}

\* A directory listing: its children in the order read_dir yields them
MkDir(f) ==
    [i \in DOMAIN f |->
        [name |-> FileNames[i], kind |-> f[i].kind, modified |-> f[i].modified,
         contents |-> f[i].contents, present |-> TRUE]]

Listings == {MkDir(f) : f \in UNION {[1..n -> EntryShapes] : n \in 0..MaxEntries}}

NoError == [kind |-> "None", detail |-> ""]

----------------------------------------------------------------------------
(* The program *)

Init ==
    /\ pc = "Start"
    /\ path_exists \in BOOLEAN
    /\ dir \in (IF path_exists THEN Listings ELSE {<<>>})
    /\ dir0 = dir
    /\ duration_arg = <<>>
    /\ duration = <<>>
    /\ now = <<>>
    /\ threshold_time = <<>>
    /\ prompted = FALSE
    /\ answer = ""
    /\ read_dir_called = FALSE
    /\ scan_fault = NoFault
    /\ file_is_old_mapping = <<>>
    /\ next = 1
    /\ attempted = {}
    /\ results = <<>>
    /\ err = NoError
    /\ stdout = <<>>

\* main_script returns Err(e); main panics with its message
Fail(kind, detail) ==
    /\ pc' = "Failed"
    /\ err' = [kind |-> kind, detail |-> detail]

\* get_args with a malformed duration
GetArgsInvalid ==
    /\ pc = "Start"
    /\ \E s \in DurationArgs :
        /\ ~ParseDuration(s).ok
        /\ duration_arg' = s
    /\ Fail("InvalidArgument", "duration")
    /\ UNCHANGED <<path_exists, dir, dir0, duration, now, threshold_time,
                   prompted, answer, read_dir_called, scan_fault,
                   file_is_old_mapping, next, attempted, results, stdout>>

\* get_args with a duration it accepts; where the multiplication overflows,
\* a build without overflow checks continues with the wrapped product
GetArgsOk ==
    /\ pc = "Start"
    /\ \E s \in DurationArgs :
        /\ ParseDuration(s).ok
        /\ duration_arg' = s
        /\ duration' = ParseDuration(s).secs
    /\ pc' = "ArgsParsed"
    /\ UNCHANGED <<path_exists, dir, dir0, now, threshold_time, prompted,
                   answer, read_dir_called, scan_fault, file_is_old_mapping,
                   next, attempted, results, err, stdout>>

\* get_args in a build with overflow checks: the multiplication panics
GetArgsOverflowPanic ==
    /\ pc = "Start"
    /\ \E s \in DurationArgs :
        /\ ParseDuration(s).ok
        /\ ParseDuration(s).overflow
        /\ duration_arg' = s
    /\ pc' = "Panicked"
    /\ UNCHANGED <<path_exists, dir, dir0, duration, now, threshold_time,
                   prompted, answer, read_dir_called, scan_fault,
                   file_is_old_mapping, next, attempted, results, err, stdout>>

\* SystemTime::now().checked_sub(duration) and its conversion for the prompt
ComputeThreshold ==
    /\ pc = "ArgsParsed"
    /\ \E t \in NowSet :
        LET r == CheckedSub(t, duration)
        IN  /\ now' = t
            /\ IF ~r.ok
               THEN /\ Fail("TimeSubtractionError", "")
                    /\ UNCHANGED threshold_time
               ELSE /\ threshold_time' = r.val
                    /\ pc' = IF DateTimeRepresentable(r.val)
                             THEN "ThresholdComputed" ELSE "Panicked"
                    /\ UNCHANGED err
    /\ UNCHANGED <<path_exists, dir, dir0, duration_arg, duration, prompted,
                   answer, read_dir_called, scan_fault, file_is_old_mapping,
                   next, attempted, results, stdout>>

\* input(prompt) and the comparison of the answer with "y"
Confirm ==
    /\ pc = "ThresholdComputed"
    /\ \E line \in Answers :
        /\ prompted' = TRUE
        /\ answer' = line
        /\ IF AnswerConfirms(line)
           THEN pc' = "Confirmed" /\ UNCHANGED err
           ELSE Fail("Cancelled", "")
    /\ UNCHANGED <<path_exists, dir, dir0, duration_arg, duration, now,
                   threshold_time, read_dir_called, scan_fault,
                   file_is_old_mapping, next, attempted, results, stdout>>

\* fs::read_dir(path) and the collection of (DirEntry, is_old), begun at
\* position p of main_script
ScanAt(p) ==
    /\ pc = p
    /\ read_dir_called' = TRUE
    /\ IF ~path_exists
       THEN /\ Fail("ReadDirError", PathArg)
            /\ UNCHANGED <<scan_fault, file_is_old_mapping>>
       ELSE \E fault \in {NoFault} \cup
                    [at : 1..Len(dir), kind : {"ReadDirEntryError", "ReadFileError"}] :
                LET r == CollectScan(dir, fault, threshold_time)
                IN  /\ scan_fault' = fault
                    /\ file_is_old_mapping' = r.mapping
                    /\ IF r.ok
                       THEN pc' = "Scanned" /\ UNCHANGED err
                       ELSE Fail(r.error, "")
    /\ UNCHANGED <<path_exists, dir, dir0, duration_arg, duration, now,
                   threshold_time, prompted, answer, next, attempted, results,
                   stdout>>

\* Mutant: the directory is read before the prompt
ScanBeforePrompt == ScanAt("ThresholdComputed")

Scan == ScanAt("Confirmed")

\* The deletion closure on the next old entry, a regular file: fs::remove_file
RemoveFile ==
    /\ pc = "Scanned"
    /\ NextOld(file_is_old_mapping, next) # 0
    /\ LET k == NextOld(file_is_old_mapping, next)
           i == file_is_old_mapping[k].file
       IN  /\ dir[i].present /\ dir[i].kind = "file"
           /\ attempted' = attempted \cup {i}
           /\ \/ /\ dir' = [dir EXCEPT ![i].present = FALSE]
                 /\ results' = Append(results, "unit")
                 /\ next' = k + 1
                 /\ UNCHANGED <<pc, err>>
              \/ /\ Fail("DeleteFailed", dir[i].name)
                 /\ UNCHANGED <<dir, results, next>>
    /\ UNCHANGED <<path_exists, dir0, duration_arg, duration, now,
                   threshold_time, prompted, answer, read_dir_called,
                   scan_fault, file_is_old_mapping, stdout>>

\* The deletion closure on the next old entry, a directory: fs::remove_dir_all,
\* which removes the contents one by one and then the directory, and stops at
\* the first removal that fails
RemoveDirAll ==
    /\ pc = "Scanned"
    /\ NextOld(file_is_old_mapping, next) # 0
    /\ LET k == NextOld(file_is_old_mapping, next)
           i == file_is_old_mapping[k].file
       IN  /\ dir[i].present /\ dir[i].kind = "dir"
           /\ attempted' = attempted \cup {i}
           /\ \/ /\ dir' = [dir EXCEPT ![i].present = FALSE, ![i].contents = 0]
                 /\ results' = Append(results, "unit")
                 /\ next' = k + 1
                 /\ UNCHANGED <<pc, err>>
              \/ \E removed \in 0..dir[i].contents :
                    /\ dir' = [dir EXCEPT ![i].contents = @ - removed]
                    /\ Fail("DeleteFailed", dir[i].name)
                    /\ UNCHANGED <<results, next>>
    /\ UNCHANGED <<path_exists, dir0, duration_arg, duration, now,
                   threshold_time, prompted, answer, read_dir_called,
                   scan_fault, file_is_old_mapping, stdout>>

\* The deletion closure on the next old entry, neither a file nor a directory
RemoveNeither ==
    /\ pc = "Scanned"
    /\ NextOld(file_is_old_mapping, next) # 0
    /\ LET k == NextOld(file_is_old_mapping, next)
           i == file_is_old_mapping[k].file
       IN  /\ ~(dir[i].present /\ dir[i].kind \in {"file", "dir"})
           /\ attempted' = attempted \cup {i}
           /\ Fail("DeleteFailed", dir[i].name)
    /\ UNCHANGED <<path_exists, dir, dir0, duration_arg, duration, now,
                   threshold_time, prompted, answer, read_dir_called,
                   scan_fault, file_is_old_mapping, next, results, stdout>>

\* The collection ends without an Err: Ok(results?.len()) and main's println
Report ==
    /\ pc = "Scanned"
    /\ NextOld(file_is_old_mapping, next) = 0
    /\ stdout' = Append(stdout, ResultsLen(results))
    /\ pc' = "Reported"
    /\ UNCHANGED <<path_exists, dir, dir0, duration_arg, duration, now,
                   threshold_time, prompted, answer, read_dir_called,
                   scan_fault, file_is_old_mapping, next, attempted, results,
                   err>>

Next ==
    \/ GetArgsInvalid
    \/ GetArgsOk
    \/ GetArgsOverflowPanic
    \/ ComputeThreshold
    \/ Confirm
    \/ Scan
    \/ RemoveFile
    \/ RemoveDirAll
    \/ RemoveNeither
    \/ Report

Spec == Init /\ [][Next]_vars

----------------------------------------------------------------------------
(* Notions the properties are stated with, defined apart from the program *)

\* a < b as numbers: at the most significant limb where they differ, a is less
StrictlyEarlier(a, b) ==
    \E k \in 1..Len(a) :
        /\ a[k] < b[k]
        /\ \A j \in (k + 1)..Len(a) : a[j] = b[j]

\* threshold_time is now minus duration
ThresholdIsNowMinusDuration == SubLimbs(now, threshold_time, 0) = duration \o <<0>>

\* The children whose modification time is strictly earlier than the threshold
OldChildren ==
    {i \in 1..Len(dir0) : StrictlyEarlier(dir0[i].modified, threshold_time)}

\* The scan returned a complete mapping
ScanSucceeded == pc \in {"Scanned", "Reported"} \/ err.kind = "DeleteFailed"

\* Natural numbers of any size: 96-bit limbs hold every value met here
WideZero == <<0, 0, 0, 0, 0, 0>>

Widen(x) == x \o <<0, 0>>

RECURSIVE WideValue(_, _)
WideValue(digits, acc) ==
    IF digits = <<>> THEN acc
    ELSE WideValue(Tail(digits),
                   MulLimbs(MulLimbs(acc, 10, 0), 1, DigitValue(Head(digits))))

\* The number a string of decimal digits denotes (the limbs above 96 bits are 0)
DecimalValue(digits) == SubSeq(WideValue(digits, WideZero), 1, 6)

Magnitude(s) == SubSeq(s, 1, Len(s) - 1)

\* A non-negative decimal integer, then exactly one unit character
WellShaped(s) ==
    /\ Len(s) >= 2
    /\ s[Len(s)] \in {"d", "w"}
    /\ \A i \in 1..(Len(s) - 1) : IsDigit(s[i])

\* ... whose magnitude fits an unsigned 64-bit integer
WellFormedDuration(s) ==
    /\ WellShaped(s)
    /\ SubSeq(DecimalValue(Magnitude(s)), 5, 6) = <<0, 0>>

\* n * 86400 for "<n>d", n * 604800 for "<n>w", without any wrapping
ExactSeconds(s) ==
    LET n == DecimalValue(Magnitude(s))
        k == IF s[Len(s)] = "d" THEN 864 ELSE 6048
    IN  SubSeq(MulLimbs(SubSeq(MulLimbs(n, k, 0), 1, 6), 100, 0), 1, 6)

----------------------------------------------------------------------------
(* Properties *)

\* C1: when the line read at the prompt is anything but "y", the run fails
\* with Cancelled, the directory is never read and no entry is removed.
C1_CancelledRemovesNothing ==
    (prompted /\ answer # "y") =>
        /\ pc = "Failed"
        /\ err = [kind |-> "Cancelled", detail |-> ""]
        /\ ~read_dir_called
        /\ attempted = {}
        /\ dir = dir0

\* A run cancelled with "Y" although a child is older than the threshold
C1_Witness ==
    /\ prompted /\ answer = "Y" /\ pc = "Failed"
    /\ OldChildren # {}
    /\ \A i \in OldChildren : dir[i].present

\* C2: an entry classified not-old is never handed to the deletion step and
\* is present and unchanged, whatever the outcome of the run.
C2_NotOldUntouched ==
    \A k \in 1..Len(file_is_old_mapping) :
        LET e == file_is_old_mapping[k]
        IN  ~e.is_old => (e.file \notin attempted /\ dir[e.file] = dir0[e.file])

\* A finished deletion that removed an old entry and kept a not-old one
C2_Witness ==
    /\ pc \in {"Reported", "Failed"}
    /\ \E k \in 1..Len(file_is_old_mapping) :
        /\ file_is_old_mapping[k].is_old
        /\ ~dir[file_is_old_mapping[k].file].present
    /\ \E k \in 1..Len(file_is_old_mapping) :
        /\ ~file_is_old_mapping[k].is_old
        /\ dir[file_is_old_mapping[k].file].present

\* C3: the scan lists every child once, in order, and sets is_old iff the
\* child's modification time is strictly earlier than now minus duration.
C3_OldIffStrictlyEarlier ==
    ScanSucceeded =>
        /\ ThresholdIsNowMinusDuration
        /\ Len(file_is_old_mapping) = Len(dir0)
        /\ \A i \in 1..Len(dir0) :
            /\ file_is_old_mapping[i].file = i
            /\ file_is_old_mapping[i].is_old <=> (i \in OldChildren)

\* A scan with a child modified exactly at the threshold, classified not
\* old, and a child modified one second before it, classified old
C3_Witness ==
    /\ pc = "Scanned"
    /\ \E i, j \in 1..Len(dir0) :
        /\ dir0[i].modified = threshold_time /\ ~file_is_old_mapping[i].is_old
        /\ StrictlyEarlier(dir0[j].modified, threshold_time)
        /\ file_is_old_mapping[j].is_old

C5_MalformedRejected ==
    (pc # "Start" /\ ~WellFormedDuration(duration_arg)) =>
        (pc = "Failed" /\ err = [kind |-> "InvalidArgument", detail |-> "duration"])

\* C6 as claimed: an accepted "<n>d" yields n * 86400 seconds and an accepted
\* "<n>w" yields n * 604800 seconds, never a wrapped value.
C6_SpanIsExactProduct ==
    (duration # <<>> /\ WellShaped(duration_arg)) =>
        Widen(duration) = ExactSeconds(duration_arg)

\* C7: a count is printed only by a run that removed every old entry, and it
\* is the number of entries classified old; a failed deletion prints none.
C7_CountIsNumberOfOldEntries ==
    /\ pc = "Reported" => stdout # <<>>
    /\ stdout # <<>> =>
        /\ pc = "Reported" /\ err = NoError
        /\ stdout = <<Cardinality(OldChildren)>>
        /\ \A i \in 1..Len(dir0) : dir[i].present <=> (i \notin OldChildren)
    /\ err.kind = "DeleteFailed" => stdout = <<>>

\* A report of two removals, one of them a directory, beside a kept entry
C7_Witness ==
    /\ pc = "Reported" /\ stdout = <<2>>
    /\ Len(dir0) = 3
    /\ \E i \in OldChildren : dir0[i].kind = "dir" /\ ~dir[i].present

\* C8: the first error is final.  After a failure nothing more is done; a bad
\* duration fails before the clock, the prompt and the file system are
\* touched; a threshold underflow fails before the prompt and the file
\* system; any failure of the scan fails the run with nothing classified and
\* nothing removed.
C8_FirstErrorFinal ==
    /\ pc = "Failed" => (err # NoError /\ ~ENABLED Next)
    /\ err # NoError => (pc = "Failed" /\ stdout = <<>>)
    /\ err.kind = "InvalidArgument" =>
        /\ ~ParseDuration(duration_arg).ok
        /\ now = <<>> /\ ~prompted /\ ~read_dir_called
        /\ attempted = {} /\ dir = dir0
    /\ err.kind = "TimeSubtractionError" =>
        /\ ~prompted /\ ~read_dir_called /\ attempted = {} /\ dir = dir0
    /\ err.kind \in {"ReadDirError", "ReadDirEntryError", "ReadFileError"} =>
        /\ file_is_old_mapping = <<>> /\ attempted = {} /\ dir = dir0
    /\ scan_fault # NoFault => (pc = "Failed" /\ err.kind = scan_fault.kind)

\* A scan that failed on its second entry although the first is old
C8_Witness ==
    /\ pc = "Failed" /\ err.kind = "ReadFileError" /\ scan_fault.at = 2
    /\ 1 \in OldChildren /\ dir[1].present

\* C9 as claimed: an entry handed to the deletion step is either removed
\* entirely, or untouched with DeleteFailed naming it.
C9_NoPartialEntry ==
    \A i \in attempted :
        \/ ~dir[i].present
        \/ /\ dir[i] = dir0[i]
           /\ err = [kind |-> "DeleteFailed", detail |-> dir0[i].name]

\* C10: old entries are removed one at a time in listing order; the step
\* stops at the first that fails: those before it are removed, those after
\* it are never attempted and stay as they were, and DeleteFailed names it.
C10_FailFastInScanOrder ==
    LET olds == {file_is_old_mapping[k].file :
                    k \in {j \in 1..Len(file_is_old_mapping) :
                              file_is_old_mapping[j].is_old}}
        failed == {i \in attempted : dir[i].present}
    IN  /\ attempted \subseteq olds
        /\ \A i \in attempted : \A j \in olds : j < i => j \in attempted
        /\ \A i \in olds \ attempted : dir[i] = dir0[i]
        /\ Cardinality(failed) <= 1
        /\ \A i \in failed :
            /\ err = [kind |-> "DeleteFailed", detail |-> dir0[i].name]
            /\ \A j \in olds : j < i => ~dir[j].present
            /\ \A j \in olds : j > i => (j \notin attempted /\ dir[j].present)
        /\ err.kind = "DeleteFailed" => failed # {}
        /\ pc = "Reported" => attempted = olds

\* Three old entries: the first removed, the second failed, the third kept
C10_Witness ==
    /\ pc = "Failed" /\ err = [kind |-> "DeleteFailed", detail |-> "b"]
    /\ Len(file_is_old_mapping) = 3
    /\ \A k \in 1..3 : file_is_old_mapping[k].is_old
    /\ ~dir[1].present /\ dir[2].present /\ dir[3].present
    /\ attempted = {1, 2}

====
